---- MODULE Spec2Model ----
(***************************************************************************)
(* kube-hpa-scale-to-zero (src/main.py).                                   *)
(*                                                                         *)
(* Two threads share the dict HPAs: the main thread runs watch_hpa (the    *)
(* Watch Subscriber), a daemon thread runs watch_metrics._watch (the Sync  *)
(* Loop).  The cluster behind the API facade (autoscaler objects, the     *)
(* workloads' scale subresources, the external metric) is the environment. *)
(* A step of a thread is the code between two blocking API calls.          *)
(***************************************************************************)
EXTENDS Integers, Sequences, FiniteSets, TLC

VARIABLES
    hpaObjs,    \* cluster: the autoscaler objects, by name
    workloads,  \* cluster: the scale subresource of each workload
    stream,     \* cluster: events of the open watch not yet delivered
    envSteps,   \* number of changes other actors have made to the cluster
    HPAs,       \* main.py:45, the dict HPAs in insertion order
    wpc,        \* position of watch_hpa (main thread)
    event,      \* watch_hpa: name of the event in hand, "" when none
    uncaught,   \* the exception each thread has raised and not caught, if any
    spc,        \* position of _watch (daemon thread)
    snap,       \* _watch: the list(HPAs.values()) being iterated
    idx,        \* _watch: index in snap of the hpa being handled
    needed,     \* update_target: needed_replicas
    current,    \* scale_*: current_replicas, read from scale.status
    proc,       \* the process: running, or exited with a status
    value,      \* history: the metric value update_target got for the hpa in hand
    outcomes,   \* history: how update_target ended for the hpas of snap handled so far
    calls,      \* history: the latest completed calls of scale_deployment / scale_statefulset
    keep,       \* history: how many calls are kept
    forgotten,  \* history: keys popped from HPAs and not stored again since
    tickForgotten \* history: forgotten, as it was when the snapshot was taken

vars == <<hpaObjs, workloads, stream, envSteps, HPAs, wpc, event, uncaught, spc, snap, idx,
          needed, current, proc, value, outcomes, calls, keep, forgotten,
          tickForgotten>>

----------------------------------------------------------------------------
(* Bounds of the model *)

\* cluster changes by other actors (kubectl, the native autoscaler) in a run
MaxEnvSteps == 1
\* completed Scaler calls kept in calls under SpecScale
MaxCalls == 2
\* completed Scaler calls kept in calls under SpecE2E: the ticks of the scenario
MaxTicks == 3

\* names of the autoscaler objects of the watched namespace, as a list orders them
NameOrder == <<"a", "b">>
Names == {NameOrder[i] : i \in 1..Len(NameOrder)}
NAMESPACE == "ns"

\* replica counts the workloads start with (settled: status = spec)
InitReplicas == {0, 3}
\* replica counts the native autoscaler or a user sets
OtherReplicas == {1, 3}

\* A quantity as the API serialises it: a string, here a sequence of characters.
None == <<"None">>
Q0 == <<"0">>
Q5 == <<"5">>
Q10 == <<"1", "0">>
Q25 == <<"2", "5">>
QNeg5 == <<"-", "5">>
Q500m == <<"5", "0", "0", "m">>

\* values the external metric reports
MetricQuantities == {Q0, Q5, Q25, QNeg5}
\* What an API call gives: 200, or the status of the ApiException it raises.
GONE == 410
NOT_FOUND == 404
METRIC_UNAVAILABLE == {404, 503, 403}
\* statuses the code gives no special meaning to
OtherStatuses == {500}
Succeeded(r) == r = 200

Max(a, b) == IF a >= b THEN a ELSE b

----------------------------------------------------------------------------
(* Python's int() and // *)

Digits == {"0", "1", "2", "3", "4", "5", "6", "7", "8", "9"}

DigitVal(c) ==
    CASE c = "0" -> 0 [] c = "1" -> 1 [] c = "2" -> 2 [] c = "3" -> 3
      [] c = "4" -> 4 [] c = "5" -> 5 [] c = "6" -> 6 [] c = "7" -> 7
      [] c = "8" -> 8 [] c = "9" -> 9

RECURSIVE DecimalValue(_)
DecimalValue(s) ==
    IF s = <<>> THEN 0
    ELSE 10 * DecimalValue(SubSeq(s, 1, Len(s) - 1)) + DigitVal(s[Len(s)])

AllDigits(s) == s # <<>> /\ \A i \in 1..Len(s) : s[i] \in Digits

\* int(x): the integer a decimal literal denotes; TypeError on None,
\* ValueError on anything that is not an integer literal ("500m").
PyInt(s) ==
    IF s = None THEN [exc |-> "TypeError", val |-> 0]
    ELSE IF AllDigits(s) THEN [exc |-> "", val |-> DecimalValue(s)]
    ELSE IF s # <<>> /\ s[1] = "-" /\ AllDigits(Tail(s))
         THEN [exc |-> "", val |-> 0 - DecimalValue(Tail(s))]
    ELSE [exc |-> "ValueError", val |-> 0]

\* a // b for b # 0: the floor of the quotient
FloorDiv(a, b) == IF b > 0 THEN a \div b ELSE (0 - a) \div (0 - b)

----------------------------------------------------------------------------
(* The cluster *)

\* The autoscaler objects a name can hold (spec.scale_target_ref and
\* spec.metrics[0].external of the object).
HpaSpecs == <<
    [kind |-> "Deployment",  target |-> "bar",   type |-> "AverageValue",
     average_value |-> Q10, metric |-> "queue_len"],
    [kind |-> "StatefulSet", target |-> "db",    type |-> "AverageValue",
     average_value |-> Q5,  metric |-> "backlog"],
    [kind |-> "DaemonSet",   target |-> "agent", type |-> "AverageValue",
     average_value |-> Q10, metric |-> "queue_len"],
    [kind |-> "Deployment",  target |-> "bar",   type |-> "Value",
     average_value |-> Q10, metric |-> "queue_len"],
    [kind |-> "Deployment",  target |-> "bar",   type |-> "AverageValue",
     average_value |-> Q0,  metric |-> "queue_len"],
    [kind |-> "Deployment",  target |-> "bar",   type |-> "AverageValue",
     average_value |-> Q500m, metric |-> "queue_len"],
    [kind |-> "Deployment",  target |-> "bar",   type |-> "Value",
     average_value |-> None, metric |-> "queue_len"] >>

\* hpaObjs[n].spec is an index of HpaSpecs, or 0 when the object does not exist
SpecIds == 1..Len(HpaSpecs)
\* the objects kubectl apply writes in a run
AppliedSpecs == {1, 2}
HpaExists(n) == hpaObjs[n].spec \in SpecIds

WorkloadIds == {<<"Deployment", "bar">>, <<"StatefulSet", "db">>}

Running == proc.state = "running"

\* the process has ended with status 1: os._exit(1) in _watch, or the
\* interpreter exiting after an exception has left the main thread (the
\* daemon thread ends with it)
Exited(thread, exc, status) ==
    [state |-> "exited", code |-> 1, thread |-> thread, exc |-> exc,
     status |-> status]

----------------------------------------------------------------------------
(* The dict HPAs: a sequence of [key, value] in insertion order *)

KeyIndex(store, k) ==
    IF \E i \in 1..Len(store) : store[i].key = k
    THEN CHOOSE i \in 1..Len(store) : store[i].key = k
    ELSE 0

\* HPAs[k] = v
DictSet(store, k, v) ==
    IF KeyIndex(store, k) = 0
    THEN Append(store, [key |-> k, value |-> v])
    ELSE [store EXCEPT ![KeyIndex(store, k)].value = v]

\* a pop that leaves the entry in place
DictPop_keeps(store, k) == store

\* HPAs.pop(k, None)
DictPop(store, k) ==
    IF KeyIndex(store, k) = 0 THEN store
    ELSE SubSeq(store, 1, KeyIndex(store, k) - 1)
         \o SubSeq(store, KeyIndex(store, k) + 1, Len(store))

\* a copy that misses the entry stored last
DictValues_torn(store) == [i \in 1..(Len(store) - 1) |-> store[i].value]

\* list(HPAs.values())
DictValues(store) == [i \in 1..Len(store) |-> store[i].value]

Keys(store) == {store[i].key : i \in 1..Len(store)}

NamespacedName(namespace, name) == namespace \o "/" \o name

HpaKey(hpa) == NamespacedName(hpa.namespace, hpa.name)

----------------------------------------------------------------------------
(* watch_hpa, the main thread *)

\* what list+watch or the open stream can raise
StreamFailures ==
    {[exc |-> "ApiException", status |-> st] : st \in {GONE} \cup OtherStatuses}
    \cup {[exc |-> "ProtocolError", status |-> 0]}

NoFailure == [exc |-> "", status |-> 200]

\* the objects the list of the watch returns: those that exist and match
\* the label selector
Listed == SelectSeq(NameOrder, LAMBDA n : HpaExists(n) /\ hpaObjs[n].matches)

\* an except clause that restarts the loop on every ApiException
WatchRaised_any_ApiException(failure) ==
    /\ stream' = <<>>
    /\ event' = ""
    /\ IF failure.exc = "ApiException"
       THEN wpc' = "connecting" /\ uncaught' = uncaught
       ELSE wpc' = "raised" /\ uncaught' = [uncaught EXCEPT !.main = failure]

\* watch_hpa's except clause: status 410 restarts the while loop, any other
\* exception leaves watch_hpa; the main thread has then only to end
WatchRaised(failure) ==
    /\ stream' = <<>>
    /\ event' = ""
    /\ IF failure.exc = "ApiException" /\ failure.status = GONE
       THEN wpc' = "connecting" /\ uncaught' = uncaught
       ELSE wpc' = "raised" /\ uncaught' = [uncaught EXCEPT !.main = failure]

\* w.stream(list_namespaced_horizontal_pod_autoscaler, ...): the list
\* c is what the list gives: the objects, or an exception
WatchConnect(c) ==
    /\ Running /\ wpc = "connecting"
    /\ IF c = NoFailure
       THEN /\ stream' = Listed
            /\ wpc' = "streaming"
            /\ UNCHANGED <<event, uncaught>>
       ELSE WatchRaised(c)
    /\ UNCHANGED <<hpaObjs, workloads, envSteps, HPAs, proc, spc, snap, idx, needed,
                   current, value, outcomes, calls, keep, forgotten,
                   tickForgotten>>

\* the stream raises f while watch_hpa waits for the next event
WatchStreamError(f) ==
    /\ Running /\ wpc = "streaming"
    /\ WatchRaised(f)
    /\ UNCHANGED <<hpaObjs, workloads, envSteps, HPAs, proc, spc, snap, idx, needed,
                   current, value, outcomes, calls, keep, forgotten,
                   tickForgotten>>

\* build_metric_value_path(hpa)
build_metric_value_path(obj) ==
    [metric_name |-> obj.metric, target_value |-> PyInt(obj.average_value)]

\* the HPA(...) that update_hpa stores for the object obj read under name n
NewHPA(n, obj) ==
    [name |-> n,
     namespace |-> NAMESPACE,
     metric_name |-> build_metric_value_path(obj).metric_name,
     target_kind |-> obj.kind,
     target_name |-> obj.target,
     target_type |-> obj.type,
     target_value |-> build_metric_value_path(obj).target_value.val]

\* the statuses of the ApiException a read of an object can raise besides
\* 404: gone, forbidden (list and watch allowed, get not), server error
ReadFailures == {GONE, 403} \cup OtherStatuses

\* what read_namespaced_horizontal_pod_autoscaler(n) can give
ReadHpaResults(n) ==
    (IF HpaExists(n) THEN {200} ELSE {NOT_FOUND}) \cup ReadFailures

\* for event in w.stream(...): the open watch delivers the next event and
\* update_hpa(event["object"].metadata) calls the read of the object
WatchEvent ==
    /\ Running /\ wpc = "streaming" /\ stream # <<>>
    /\ event' = Head(stream)
    /\ stream' = Tail(stream)
    /\ wpc' = "reading"
    /\ UNCHANGED <<hpaObjs, workloads, envSteps, HPAs, uncaught, proc, spc, snap,
                   idx, needed, current, value, outcomes, calls, keep,
                   forgotten, tickForgotten>>

\* update_hpa returns to the for loop of watch_hpa
NextEvent ==
    /\ wpc' = "streaming"
    /\ event' = ""
    /\ UNCHANGED <<stream, uncaught>>

\* update_hpa(metadata) for the event n, from the answer r of the read on
UpdateHpa(n, r) ==
    LET k == NamespacedName(NAMESPACE, n)
        obj == HpaSpecs[hpaObjs[n].spec]
    IN  IF Succeeded(r) THEN
            IF build_metric_value_path(obj).target_value.exc = "" THEN
                /\ HPAs' = DictSet(HPAs, k, NewHPA(n, obj))
                /\ forgotten' = forgotten \ {k}
                /\ NextEvent
            ELSE
                /\ WatchRaised(
                      [exc |-> build_metric_value_path(obj).target_value.exc,
                       status |-> 0])
                /\ UNCHANGED <<HPAs, forgotten>>
        ELSE IF r = NOT_FOUND THEN
            /\ HPAs' = DictPop(HPAs, k)
            /\ forgotten' = IF k \in Keys(HPAs) THEN forgotten \cup {k}
                            ELSE forgotten
            /\ NextEvent
        ELSE
            /\ WatchRaised([exc |-> "ApiException", status |-> r])
            /\ UNCHANGED <<HPAs, forgotten>>

\* update_hpa(metadata) for the event in hand: the read of the object is
\* answered r
update_hpa(r) ==
    /\ Running /\ wpc = "reading"
    /\ r \in ReadHpaResults(event)
    /\ UpdateHpa(event, r)
    /\ UNCHANGED <<hpaObjs, workloads, envSteps, proc, spc, snap, idx, needed,
                   current, value, outcomes, calls, keep, tickForgotten>>

----------------------------------------------------------------------------
(* watch_metrics._watch, the daemon thread *)

\* what the GET of the external metric can give: a value, or an ApiException
MetricResults ==
    {[status |-> 200, quantity |-> q] : q \in MetricQuantities}
    \cup {[status |-> st, quantity |-> None] :
              st \in METRIC_UNAVAILABLE \cup OtherStatuses}

\* a Python result: a value, None, or a raised exception
Value(v) == [exc |-> "", none |-> FALSE, val |-> v]
NoneValue == [exc |-> "", none |-> TRUE, val |-> 0]
Raise(e) == [exc |-> e, none |-> FALSE, val |-> 0]

\* a get_external_metric_value that lets status 403 propagate
get_external_metric_value_raises_forbidden(m) ==
    IF Succeeded(m.status) THEN
        IF PyInt(m.quantity).exc = "" THEN Value(PyInt(m.quantity).val)
        ELSE Raise(PyInt(m.quantity).exc)
    ELSE IF m.status \in {404, 503} THEN NoneValue
    ELSE Raise("ApiException")

\* get_external_metric_value, given what the GET gave
get_external_metric_value(m) ==
    IF Succeeded(m.status) THEN
        IF PyInt(m.quantity).exc = "" THEN Value(PyInt(m.quantity).val)
        ELSE Raise(PyInt(m.quantity).exc)
    ELSE IF m.status \in METRIC_UNAVAILABLE THEN NoneValue
    ELSE Raise("ApiException")

\* a test for a metric value other than zero in place of a positive one
NeededReplicas_nonzero_test(metric_value, target_value) ==
    IF metric_value # 0 THEN
        IF target_value = 0 THEN Raise("ZeroDivisionError")
        ELSE Value(Max(1, FloorDiv(metric_value, target_value)))
    ELSE Value(0)

\* the quotient alone, without the floor of one replica
NeededReplicas_quotient_only(metric_value, target_value) ==
    IF metric_value > 0 THEN
        IF target_value = 0 THEN Raise("ZeroDivisionError")
        ELSE Value(FloorDiv(metric_value, target_value))
    ELSE Value(0)

\* max(1, (metric_value // hpa.target_value)) if metric_value > 0 else 0
NeededReplicas(metric_value, target_value) ==
    IF metric_value > 0 THEN
        IF target_value = 0 THEN Raise("ZeroDivisionError")
        ELSE Value(Max(1, FloorDiv(metric_value, target_value)))
    ELSE Value(0)

\* a get_needed_replicas that divides whatever the target type is
get_needed_replicas_any_type(hpa, m) ==
    IF get_external_metric_value(m).exc # "" THEN get_external_metric_value(m)
    ELSE IF get_external_metric_value(m).none THEN NoneValue
    ELSE NeededReplicas(get_external_metric_value(m).val, hpa.target_value)

\* get_needed_replicas(hpa), given what the GET of its metric gave
get_needed_replicas(hpa, m) ==
    IF get_external_metric_value(m).exc # "" THEN get_external_metric_value(m)
    ELSE IF get_external_metric_value(m).none THEN NoneValue
    ELSE IF hpa.target_type = "AverageValue"
         THEN NeededReplicas(get_external_metric_value(m).val, hpa.target_value)
    ELSE Raise("ValueError")

\* a Scaler that scales up from zero and never down to zero
scaling_is_needed_from_zero_only(current_replicas, needed_replicas) ==
    current_replicas = 0 /\ needed_replicas # 0

\* a Scaler that reconciles every difference, not only the zero boundary
scaling_is_needed_any_difference(current_replicas, needed_replicas) ==
    current_replicas # needed_replicas

\* bool(current_replicas) != bool(needed_replicas)
scaling_is_needed(current_replicas, needed_replicas) ==
    (current_replicas # 0) # (needed_replicas # 0)

\* the kinds update_target has a case for
SupportedKinds == {"Deployment", "StatefulSet"}

\* except Exception as exc in _watch: the exception e has left the loop and
\* LOGGER.exception is to log it, os._exit(1) to follow
SyncRaised(e, status) ==
    /\ uncaught' = [uncaught EXCEPT !.sync = [exc |-> e, status |-> status]]
    /\ spc' = "failed"
    /\ UNCHANGED <<snap, idx, needed, current, value, outcomes>>

\* update_target(hpa) returns: the next hpa of the snapshot, or
\* sleep(SYNC_INTERVAL) and the next iteration of while True
NextHpa(outcome) ==
    /\ uncaught' = uncaught
    /\ needed' = 0
    /\ current' = 0
    /\ value' = 0
    /\ IF idx < Len(snap)
       THEN /\ spc' = "update_target" /\ idx' = idx + 1 /\ snap' = snap
            /\ outcomes' = Append(outcomes, outcome)
       ELSE /\ spc' = "tick" /\ idx' = 0 /\ snap' = <<>>
            /\ outcomes' = <<>>

\* for hpa in list(HPAs.values())
Tick ==
    /\ Running /\ spc = "tick"
    /\ snap' = DictValues(HPAs)
    /\ tickForgotten' = forgotten
    /\ IF DictValues(HPAs) # <<>>
       THEN spc' = "update_target" /\ idx' = 1
       ELSE spc' = "tick" /\ idx' = 0
    /\ UNCHANGED <<hpaObjs, workloads, stream, envSteps, HPAs, wpc, event,
                   uncaught, needed, current, proc, value, outcomes, calls, keep, forgotten>>

\* an update_target that passes over a kind it has no case for
UpdateTarget_skips_unknown_kind(hpa, m) ==
    IF get_needed_replicas(hpa, m).exc # "" THEN
        SyncRaised(get_needed_replicas(hpa, m).exc, m.status)
    ELSE IF get_needed_replicas(hpa, m).none THEN
        NextHpa("skip")
    ELSE IF hpa.target_kind \in SupportedKinds THEN
        /\ spc' = "scale_read"
        /\ needed' = get_needed_replicas(hpa, m).val
        /\ value' = get_external_metric_value(m).val
        /\ UNCHANGED <<snap, idx, current, uncaught, outcomes>>
    ELSE
        NextHpa("skip")

\* update_target(hpa) up to the call of scale_deployment / scale_statefulset,
\* given that the GET of the metric gave m
UpdateTarget(hpa, m) ==
    IF get_needed_replicas(hpa, m).exc # "" THEN
        SyncRaised(get_needed_replicas(hpa, m).exc, m.status)
    ELSE IF get_needed_replicas(hpa, m).none THEN
        NextHpa("skip")
    ELSE IF hpa.target_kind \in SupportedKinds THEN
        /\ spc' = "scale_read"
        /\ needed' = get_needed_replicas(hpa, m).val
        /\ value' = get_external_metric_value(m).val
        /\ UNCHANGED <<snap, idx, current, uncaught, outcomes>>
    ELSE
        SyncRaised("ValueError", m.status)

\* an update_target that forgets an hpa whose metric is unavailable
update_target_forgets_on_skip(m) ==
    /\ Running /\ spc = "update_target"
    /\ UpdateTarget(snap[idx], m)
    /\ HPAs' = IF get_needed_replicas(snap[idx], m).none
               THEN DictPop(HPAs, HpaKey(snap[idx])) ELSE HPAs
    /\ UNCHANGED <<hpaObjs, workloads, stream, envSteps, wpc, event, proc, calls,
                   keep, forgotten, tickForgotten>>

\* update_target(hpa) for the hpa in hand, where the GET of the metric gives m
update_target(m) ==
    /\ Running /\ spc = "update_target"
    /\ UpdateTarget(snap[idx], m)
    /\ UNCHANGED <<hpaObjs, workloads, stream, envSteps, HPAs, wpc, event, proc,
                   calls,
                   keep, forgotten, tickForgotten>>

\* the workload of the call in progress
Target == <<snap[idx].target_kind, snap[idx].target_name>>

\* what a read or a patch of the scale of workload w can give
ScaleResults(w) ==
    (IF w \in WorkloadIds /\ workloads[w].exists THEN {200} ELSE {NOT_FOUND})
    \cup OtherStatuses

\* a call of scale_deployment / scale_statefulset has returned
Completed(current_replicas, issued, status) ==
    LET call == [key |-> HpaKey(snap[idx]), target |-> Target,
                 threshold |-> snap[idx].target_value,
                 value |-> value,
                 current |-> current_replicas, needed |-> needed,
                 issued |-> issued, status |-> status, untouched |-> TRUE]
    IN  calls' = IF keep = 0 THEN calls
                 ELSE IF Len(calls) < keep THEN Append(calls, call)
                 ELSE Append(Tail(calls), call)

\* a Scaler that lets the 404 of the read propagate
ScaleRead_not_found_raises(r) ==
    IF Succeeded(r) THEN
        IF ~scaling_is_needed(workloads[Target].status, needed) THEN
            /\ NextHpa("no need")
            /\ Completed(workloads[Target].status, FALSE, r)
        ELSE
            /\ spc' = "scale_patch"
            /\ current' = workloads[Target].status
            /\ UNCHANGED <<snap, idx, needed, uncaught, value, outcomes, calls>>
    ELSE
        /\ SyncRaised("ApiException", r)
        /\ UNCHANGED calls

\* scale_deployment / scale_statefulset: read the scale and decide,
\* given that the read gave r
ScaleRead(r) ==
    IF Succeeded(r) THEN
        IF ~scaling_is_needed(workloads[Target].status, needed) THEN
            /\ NextHpa("no need")
            /\ Completed(workloads[Target].status, FALSE, r)
        ELSE
            /\ spc' = "scale_patch"
            /\ current' = workloads[Target].status
            /\ UNCHANGED <<snap, idx, needed, uncaught, value, outcomes, calls>>
    ELSE IF r = NOT_FOUND THEN
        /\ NextHpa("not found")
        /\ Completed(0, FALSE, r)
    ELSE
        /\ SyncRaised("ApiException", r)
        /\ UNCHANGED calls

scale_read(r) ==
    /\ Running /\ spc = "scale_read"
    /\ r \in ScaleResults(Target)
    /\ ScaleRead(r)
    /\ UNCHANGED <<hpaObjs, workloads, stream, envSteps, HPAs, wpc, event, proc,
                   keep,
                   forgotten, tickForgotten>>

\* scale.spec.replicas = needed_replicas; patch_namespaced_*_scale(body=scale),
\* given that the patch gave r
ScalePatch(r) ==
    IF Succeeded(r) THEN
        /\ workloads' = [workloads EXCEPT ![Target].spec = needed]
        /\ NextHpa("scaled")
        /\ Completed(current, TRUE, r)
    ELSE IF r = NOT_FOUND THEN
        /\ NextHpa("not found")
        /\ Completed(current, TRUE, r)
        /\ UNCHANGED workloads
    ELSE
        /\ SyncRaised("ApiException", r)
        /\ UNCHANGED <<workloads, calls>>

scale_patch(r) ==
    /\ Running /\ spc = "scale_patch"
    /\ r \in ScaleResults(Target)
    /\ ScalePatch(r)
    /\ UNCHANGED <<hpaObjs, stream, envSteps, HPAs, wpc, event, proc, keep,
                   forgotten,
                   tickForgotten>>

\* a _watch whose failure ends the daemon thread and leaves the process running
os_exit_thread_only ==
    /\ Running /\ spc = "failed"
    /\ proc' = proc
    /\ spc' = "exited"
    /\ UNCHANGED <<hpaObjs, workloads, stream, envSteps, HPAs, wpc, event, uncaught,
                   snap, idx, needed, current, value, outcomes, calls, keep,
                   forgotten, tickForgotten>>

\* os._exit(1) in _watch, once LOGGER.exception has returned
os_exit ==
    /\ Running /\ spc = "failed"
    /\ proc' = Exited("sync", uncaught.sync.exc, uncaught.sync.status)
    /\ spc' = "exited"
    /\ UNCHANGED <<hpaObjs, workloads, stream, envSteps, HPAs, wpc, event, uncaught,
                   snap, idx, needed, current, value, outcomes, calls, keep,
                   forgotten, tickForgotten>>

\* the exception has left watch_hpa and __main__: the main thread ends and
\* the interpreter exits with status 1, the daemon thread with it
MainExit ==
    /\ Running /\ wpc = "raised"
    /\ proc' = Exited("main", uncaught.main.exc, uncaught.main.status)
    /\ UNCHANGED <<hpaObjs, workloads, stream, envSteps, HPAs, wpc, event, uncaught,
                   spc, snap, idx, needed, current, value, outcomes, calls,
                   keep, forgotten, tickForgotten>>

----------------------------------------------------------------------------
(* The other actors of the cluster *)

\* an event reaches the open watch when the object matched or matches
Notify(n, matched) ==
    stream' = IF wpc \in {"streaming", "reading"} /\ matched
              THEN Append(stream, n) ELSE stream

ProgramUnchanged ==
    UNCHANGED <<HPAs, wpc, event, uncaught, spc, snap, idx, needed, current, proc, value,
                outcomes, keep, forgotten, tickForgotten>>

\* an actor has changed a workload after the latest completed call
Touched ==
    calls' = IF calls = <<>> THEN calls
             ELSE [calls EXCEPT ![Len(calls)].untouched = FALSE]

\* kubectl apply: the object is created or its spec replaced
ApplyHpa(n, s) ==
    /\ Running /\ envSteps < MaxEnvSteps
    /\ hpaObjs[n].spec # s
    /\ hpaObjs' = [hpaObjs EXCEPT ![n].spec = s]
    /\ Notify(n, hpaObjs[n].matches)
    /\ envSteps' = envSteps + 1
    /\ UNCHANGED <<workloads, calls>>
    /\ ProgramUnchanged

\* kubectl delete
DeleteHpa(n) ==
    /\ Running /\ envSteps < MaxEnvSteps
    /\ HpaExists(n)
    /\ hpaObjs' = [hpaObjs EXCEPT ![n].spec = 0]
    /\ Notify(n, hpaObjs[n].matches)
    /\ envSteps' = envSteps + 1
    /\ UNCHANGED <<workloads, calls>>
    /\ ProgramUnchanged

\* kubectl label: the object starts or stops matching the label selector
RelabelHpa(n) ==
    /\ Running /\ envSteps < MaxEnvSteps
    /\ HpaExists(n)
    /\ hpaObjs' = [hpaObjs EXCEPT ![n].matches = ~hpaObjs[n].matches]
    /\ Notify(n, TRUE)
    /\ envSteps' = envSteps + 1
    /\ UNCHANGED <<workloads, calls>>
    /\ ProgramUnchanged

\* the native autoscaler or a user sets the desired replica count
SetReplicas(w, r) ==
    /\ Running /\ envSteps < MaxEnvSteps
    /\ workloads[w].exists /\ workloads[w].spec # r
    /\ workloads' = [workloads EXCEPT ![w].spec = r]
    /\ envSteps' = envSteps + 1
    /\ Touched
    /\ UNCHANGED <<hpaObjs, stream>>
    /\ ProgramUnchanged

\* the workload is deleted
DeleteWorkload(w) ==
    /\ Running /\ envSteps < MaxEnvSteps
    /\ workloads[w].exists
    /\ workloads' = [workloads EXCEPT ![w].exists = FALSE]
    /\ envSteps' = envSteps + 1
    /\ Touched
    /\ UNCHANGED <<hpaObjs, stream>>
    /\ ProgramUnchanged

\* the workload's controller brings the observed replica count to the desired one
Reconcile(w) ==
    /\ Running
    /\ workloads[w].exists /\ workloads[w].status # workloads[w].spec
    /\ workloads' = [workloads EXCEPT ![w].status = workloads[w].spec]
    /\ Touched
    /\ UNCHANGED <<hpaObjs, stream, envSteps>>
    /\ ProgramUnchanged

----------------------------------------------------------------------------

\* the program after construction (main.py:45, 234-237), with no event seen
Constructed ==
    /\ stream = <<>>
    /\ envSteps = 0
    /\ HPAs = <<>>
    /\ wpc = "connecting"
    /\ event = ""
    /\ uncaught = [main |-> NoFailure, sync |-> NoFailure]
    /\ spc = "tick"
    /\ snap = <<>>
    /\ idx = 0
    /\ needed = 0
    /\ current = 0
    /\ proc = [state |-> "running", code |-> 0, thread |-> "", exc |-> "",
               status |-> 0]
    /\ value = 0
    /\ outcomes = <<>>
    /\ calls = <<>>
    /\ forgotten = {}
    /\ tickForgotten = {}

Settled(r) == [exists |-> TRUE, spec |-> r, status |-> r]
Missing == [exists |-> FALSE, spec |-> 0, status |-> 0]

\* The cluster at the start.  Any object under the first name, a supported
\* one or none under the second; the Deployment runs, the StatefulSet is gone.
Init ==
    /\ hpaObjs \in [Names -> [spec : {0} \cup SpecIds, matches : {TRUE}]]
    /\ hpaObjs[NameOrder[2]].spec \in {0, 1, 2}
    /\ workloads = [w \in WorkloadIds |->
                      IF w[1] = "Deployment" THEN Settled(3) ELSE Missing]
    /\ keep = 0
    /\ Constructed

\* The cluster at the start, for the calls of the Scaler: one supported
\* object, its workload settled at some replica count; calls are recorded.
InitScale ==
    /\ hpaObjs \in [Names -> [spec : {0, 1, 2}, matches : {TRUE}]]
    /\ hpaObjs[NameOrder[1]].spec # 0
    /\ hpaObjs[NameOrder[2]].spec = 0
    /\ workloads \in [WorkloadIds -> {Missing} \cup {Settled(r) : r \in InitReplicas}]
    /\ \A w \in WorkloadIds :
          workloads[w].exists <=> w[1] = HpaSpecs[hpaObjs[NameOrder[1]].spec].kind
    /\ keep = MaxCalls
    /\ Constructed

\* every status an API call can give
Statuses == {200, NOT_FOUND, GONE} \cup METRIC_UNAVAILABLE \cup OtherStatuses

Program ==
    \/ \E c \in {NoFailure} \cup StreamFailures : WatchConnect(c)
    \/ \E f \in StreamFailures : WatchStreamError(f)
    \/ WatchEvent
    \/ \E r \in Statuses : update_hpa(r)
    \/ MainExit
    \/ Tick
    \/ \E m \in MetricResults : update_target(m)
    \/ \E r \in Statuses : scale_read(r)
    \/ \E r \in Statuses : scale_patch(r)
    \/ os_exit

Next ==
    \/ Program
    \/ \E n \in Names, s \in AppliedSpecs : ApplyHpa(n, s)
    \/ \E n \in Names : DeleteHpa(n)
    \/ \E n \in Names : RelabelHpa(n)
    \/ \E w \in WorkloadIds, r \in OtherReplicas : SetReplicas(w, r)
    \/ \E w \in WorkloadIds : DeleteWorkload(w)
    \/ \E w \in WorkloadIds : Reconcile(w)

Spec == Init /\ [][Next]_vars

NextScale ==
    \/ Program
    \/ \E w \in WorkloadIds, r \in OtherReplicas : SetReplicas(w, r)
    \/ \E w \in WorkloadIds : DeleteWorkload(w)
    \/ \E w \in WorkloadIds : Reconcile(w)

SpecScale == InitScale /\ [][NextScale]_vars

\* The end-to-end scenario of the documentation: one autoscaler object on
\* Deployment bar with AverageValue 10, bar at 3 replicas, and no actor
\* but the program and the Deployment's own controller.
InitE2E ==
    /\ hpaObjs = [n \in Names |->
                    [spec |-> IF n = NameOrder[1] THEN 1 ELSE 0, matches |-> TRUE]]
    /\ workloads = [w \in WorkloadIds |->
                      IF w[1] = "Deployment" THEN Settled(3) ELSE Missing]
    /\ keep = MaxTicks
    /\ Constructed

NextE2E ==
    \/ Program
    \/ \E w \in WorkloadIds : Reconcile(w)

SpecE2E == InitE2E /\ [][NextE2E]_vars

\* The cluster at the start, for progress: an object on Deployment bar, which
\* runs 3 replicas, and an object on StatefulSet db, which is at 0.
InitLive ==
    /\ hpaObjs = [n \in Names |->
                    [spec |-> IF n = NameOrder[1] THEN 1 ELSE 2, matches |-> TRUE]]
    /\ workloads = [w \in WorkloadIds |->
                      IF w[1] = "Deployment" THEN Settled(3) ELSE Settled(0)]
    /\ keep = 0
    /\ Constructed

\* the metric of the Deployment's object stays at 0, that of the
\* StatefulSet's object stays at 25
SteadyMetric(hpa) ==
    [status |-> 200,
     quantity |-> IF hpa.metric_name = "queue_len" THEN Q0 ELSE Q25]

\* watch_hpa without fatal error: lists, handles events, restarts on 410
WatchLive ==
    \/ WatchConnect(NoFailure)
    \/ WatchStreamError([exc |-> "ApiException", status |-> GONE])
    \/ WatchEvent
    \/ update_hpa(200)

\* _watch with every API call answered and the metrics steady
SyncLive ==
    \/ Tick
    \/ update_target(SteadyMetric(snap[idx]))
    \/ scale_read(200)
    \/ scale_patch(200)

NextLive ==
    \/ WatchLive
    \/ SyncLive
    \/ \E w \in WorkloadIds, r \in OtherReplicas : SetReplicas(w, r)
    \/ \E w \in WorkloadIds : Reconcile(w)

\* _watch is a loop of API calls that return and of sleep(SYNC_INTERVAL): a
\* step it can take, it takes; so does watch_hpa with an event to handle
SpecLive ==
    /\ InitLive /\ [][NextLive]_vars
    /\ WF_vars(SyncLive)
    /\ WF_vars(WatchEvent)
    /\ WF_vars(update_hpa(200))
    /\ WF_vars(WatchConnect(NoFailure))

----------------------------------------------------------------------------
(* Claims *)

CallIds == 1..Len(calls)

\* the read of the scale succeeded, so the workload existed when the call decided
Decided(call) == call.issued \/ Succeeded(call.status)

\* the process has terminated with a non-zero status
Terminated == proc.state = "exited" /\ proc.code # 0

\* a step of the main thread in watch_hpa
WatchStep ==
    \/ \E f \in {NoFailure} \cup StreamFailures : WatchConnect(f)
    \/ \E f \in StreamFailures : WatchStreamError(f)
    \/ WatchEvent
    \/ \E r \in Statuses : update_hpa(r)

\* a step of the daemon thread in the loop of _watch
SyncStep ==
    \/ Tick
    \/ \E m \in MetricResults : update_target(m)
    \/ \E r \in Statuses : scale_read(r) \/ scale_patch(r)

\* once an exception has left the loop of _watch, the daemon thread takes no
\* step of the loop again: its one step is os._exit(1), which ends the
\* process with status 1
SyncFailureTerminates ==
    /\ [](Running /\ spc = "failed" => ENABLED os_exit /\ ~ENABLED SyncStep)
    /\ [][os_exit => Terminated' /\ proc'.thread = "sync"
                      /\ proc'.exc = uncaught.sync.exc]_vars

\* once an exception has left watch_hpa, the main thread handles no event
\* again: its one step is its end, with which the process exits with status 1
MainFailureTerminates ==
    /\ [](Running /\ wpc = "raised" => ENABLED MainExit /\ ~ENABLED WatchStep)
    /\ [][MainExit => Terminated' /\ proc'.thread = "main"
                       /\ proc'.exc = uncaught.main.exc]_vars

\* C1: boundary-only scaling.  Every call of scale_deployment / scale_statefulset
\* that reads the scale of an existing workload, with current replica count c
\* and needed replica count d, issues a patch iff (c = 0) # (d = 0); a patch
\* that is applied sets the workload's replica count to exactly d and changes
\* nothing else; a call that issues none leaves the workloads alone.
C1_BoundaryOnly ==
    /\ [](\A i \in CallIds :
            Decided(calls[i]) =>
                (calls[i].issued <=>
                    ((calls[i].current = 0) # (calls[i].needed = 0))))
    /\ [][\A r \in Statuses :
            scale_read(r) /\ Succeeded(r) =>
                /\ (spc' = "scale_patch") <=>
                       ((workloads[Target].status = 0) # (needed = 0))
                /\ workloads' = workloads]_vars
    /\ [][\A r \in Statuses :
            scale_patch(r) /\ Succeeded(r) =>
                /\ workloads'[Target].spec = needed
                /\ \A w \in WorkloadIds \ {Target} : workloads'[w] = workloads[w]
                /\ workloads'[Target].status = workloads[Target].status]_vars

\* C1 witness: the latest two calls are a patch from 0 to a non-zero count on
\* one side and a call with two different non-zero counts that issued none.
C1_Witness ==
    /\ Len(calls) = 2
    /\ calls[1].current = 0 /\ calls[1].needed > 0 /\ calls[1].issued
    /\ Succeeded(calls[1].status)
    /\ calls[2].current > 0 /\ calls[2].needed > 0
    /\ calls[2].current # calls[2].needed /\ ~calls[2].issued
    /\ workloads[calls[1].target].spec = calls[1].needed

\* the hpa update_target has in hand
Hpa == snap[idx]

\* the integer a successful GET of the metric carries
MetricValue(m) == PyInt(m.quantity).val

\* C2 as claimed: for target_type AverageValue and threshold T > 0, every
\* metric value V gives 0 replicas if V = 0 and max(1, floor(V / T)) otherwise.
C2_Original ==
    [][\A m \in MetricResults :
        (/\ update_target(m) /\ Succeeded(m.status)
         /\ Hpa.target_type = "AverageValue" /\ Hpa.target_value > 0)
        => get_needed_replicas(Hpa, m) =
              Value(IF MetricValue(m) = 0 THEN 0
                    ELSE Max(1, MetricValue(m) \div Hpa.target_value))]_vars

\* C2 amended: for target_type AverageValue and threshold T > 0, every metric
\* value V gives 0 replicas if V <= 0 and max(1, floor(V / T)) otherwise, and
\* that is the count update_target hands to the Scaler.
C2_NeededReplicas ==
    [][\A m \in MetricResults :
        (/\ update_target(m) /\ Succeeded(m.status)
         /\ Hpa.target_type = "AverageValue" /\ Hpa.target_value > 0)
        => /\ get_needed_replicas(Hpa, m) =
                Value(IF MetricValue(m) <= 0 THEN 0
                      ELSE Max(1, MetricValue(m) \div Hpa.target_value))
           /\ Hpa.target_kind \in SupportedKinds =>
                /\ spc' = "scale_read"
                /\ needed' = get_needed_replicas(Hpa, m).val]_vars

\* C2 witness: metric value 25 with threshold 10 has given 2 needed replicas.
C2_Witness ==
    /\ spc = "scale_read" /\ value = 25 /\ needed = 2
    /\ Hpa.target_type = "AverageValue" /\ Hpa.target_value = 10

\* C3: when the stream raises the ApiException with status 410, watch_hpa goes
\* back to connecting, where the list is its next step, the process keeps
\* running and HPAs is kept; when the stream raises anything else, watch_hpa
\* ends on the exception, and the main thread, with no event handled any
\* more, ends the process with status 1.
C3_Resync ==
    /\ [][\A f \in StreamFailures :
            WatchStreamError(f) =>
                IF f.exc = "ApiException" /\ f.status = GONE
                THEN /\ wpc' = "connecting" /\ HPAs' = HPAs
                     /\ proc' = proc /\ uncaught' = uncaught
                ELSE wpc' = "raised" /\ uncaught'.main = f]_vars
    /\ MainFailureTerminates
    /\ [](Running /\ wpc = "connecting" => ENABLED WatchConnect(NoFailure))
    /\ [][WatchConnect(NoFailure) => stream' = Listed /\ HPAs' = HPAs]_vars

\* C3 witness: watch_hpa is back at connecting with descriptors in HPAs.
C3_Witness == Running /\ wpc = "connecting" /\ HPAs # <<>>

\* the keys of the hpas of a list of HPA values
SnapKeys(hpas) == {HpaKey(hpas[i]) : i \in 1..Len(hpas)}

InTick == spc \in {"update_target", "scale_read", "scale_patch"}

\* C4: a key popped from HPAs and not stored again is in no snapshot taken
\* afterwards, and a tick that starts after the pop makes no metric query
\* and no scale call for it.
C4_RoundTrip ==
    /\ [](forgotten \cap Keys(HPAs) = {})
    /\ [][Tick => SnapKeys(snap') \cap forgotten = {}]_vars
    /\ [](InTick => \A i \in idx..Len(snap) : HpaKey(snap[i]) \notin tickForgotten)

\* C4 witness: a tick that started after the first object was forgotten is
\* handling another descriptor.
C4_Witness ==
    /\ NamespacedName(NAMESPACE, NameOrder[1]) \in tickForgotten
    /\ spc = "update_target" /\ idx = 1

\* update_target has returned without a call of the Scaler, and the loop goes
\* on to the next hpa of the snapshot or to the sleep
Skipped ==
    /\ proc' = proc /\ uncaught' = uncaught
    /\ workloads' = workloads /\ HPAs' = HPAs /\ calls' = calls
    /\ IF idx < Len(snap)
       THEN spc' = "update_target" /\ idx' = idx + 1 /\ snap' = snap
       ELSE spc' = "tick"

\* an exception leaves the loop of _watch, no workload changed
SyncFails ==
    /\ spc' = "failed" /\ uncaught'.sync.exc # ""
    /\ workloads' = workloads

UnsupportedKind == Hpa.target_kind \notin SupportedKinds

\* C5 as claimed: whenever update_target handles an hpa whose target_kind is
\* neither Deployment nor StatefulSet, the process terminates, whatever the
\* GET of the metric gives.
C5_Original ==
    [][\A m \in MetricResults :
        update_target(m) /\ UnsupportedKind => SyncFails]_vars

\* C5 amended: whenever update_target handles an hpa whose target_kind is
\* neither Deployment nor StatefulSet, the process terminates unless the GET
\* of the metric gives 404, 503 or 403; then the hpa is skipped and the loop
\* goes on.  With a metric value in hand the exception is the ValueError of
\* the kind, and the Scaler is never called.
C5_UnsupportedKind ==
    [][\A m \in MetricResults :
        update_target(m) /\ UnsupportedKind =>
            /\ IF m.status \in METRIC_UNAVAILABLE THEN Skipped ELSE SyncFails
            /\ spc' # "scale_read"
            /\ (/\ get_needed_replicas(Hpa, m).exc = ""
                /\ ~get_needed_replicas(Hpa, m).none)
               => uncaught'.sync.exc = "ValueError"]_vars
    /\ SyncFailureTerminates

\* C5 witness: the process has exited on the ValueError of a DaemonSet target.
C5_Witness ==
    /\ proc.state = "exited" /\ proc.thread = "sync" /\ proc.exc = "ValueError"
    /\ Hpa.target_kind = "DaemonSet" /\ Succeeded(proc.status)

\* C6 as claimed: a failure of the GET of the metric for one hpa of a snapshot
\* does not keep the later hpas of the snapshot from being handled in the tick.
C6_Original ==
    [][\A m \in MetricResults :
        (update_target(m) /\ ~Succeeded(m.status) /\ idx < Len(snap))
        => /\ uncaught' = uncaught
           /\ spc' = "update_target" /\ idx' = idx + 1 /\ snap' = snap]_vars

\* C6 amended: when the GET of the metric fails with 404, 503 or 403, the hpa
\* gets no Scaler call in the tick and stays in HPAs, and the loop goes on to
\* the later hpas of the snapshot; when it fails with any other status the
\* process exits with status 1 and the later hpas are not handled.
C6_MetricFailure ==
    [][\A m \in MetricResults :
        (update_target(m) /\ ~Succeeded(m.status))
        => IF m.status \in METRIC_UNAVAILABLE
           THEN Skipped /\ (HpaKey(Hpa) \in Keys(HPAs) => HpaKey(Hpa) \in Keys(HPAs'))
           ELSE SyncFails /\ uncaught'.sync.exc = "ApiException"]_vars
    /\ SyncFailureTerminates

\* C6 witness: in a tick over two hpas the first was skipped and the second
\* has reached the Scaler, the first still being in HPAs.
C6_Witness ==
    /\ outcomes = <<"skip">> /\ idx = 2 /\ spc = "scale_read"
    /\ HpaKey(snap[1]) \in Keys(HPAs)

\* C7 as claimed: two calls of the Scaler in succession for the same workload
\* with the same needed replica count, the workload existing and no other
\* actor changing it in between, issue at most one patch.
C7_Idempotent ==
    (/\ Len(calls) = 2
     /\ calls[1].target = calls[2].target
     /\ calls[1].needed = calls[2].needed
     /\ calls[1].untouched
     /\ Succeeded(calls[1].status) /\ Succeeded(calls[2].status))
    => ~(calls[1].issued /\ calls[2].issued)

\* C8 as claimed: an hpa with target_value <= 0 is never used for a replica
\* computation: update_target skips it, and the process never exits on a
\* division by zero.
C8_PositiveThreshold ==
    /\ [][\A m \in MetricResults :
            update_target(m) /\ Succeeded(m.status) /\ Hpa.target_value <= 0
            => Skipped]_vars
    /\ [](uncaught.sync.exc # "ZeroDivisionError")

\* the value stored under key k
Lookup(store, k) == store[KeyIndex(store, k)].value

\* the entries of old other than k are in new as they were
OthersKept(old, new, k) ==
    \A k2 \in Keys(old) \ {k} :
        k2 \in Keys(new) /\ Lookup(new, k2) = Lookup(old, k2)

\* the key of the event update_hpa handles
EventKey == NamespacedName(NAMESPACE, event)

\* C9: under every interleaving of watch_hpa and _watch, a snapshot is the
\* values of HPAs at the instant it is taken, taking it never fails whatever
\* watch_hpa is doing, no step of watch_hpa alters a snapshot in use, every
\* store or pop of watch_hpa takes effect on its key and keeps every other
\* entry, keys stay unique, and no step of _watch changes HPAs.
C9_ConcurrentStore ==
    /\ [][Tick => /\ snap' = [i \in 1..Len(HPAs) |-> HPAs[i].value]
                  /\ proc' = proc /\ uncaught' = uncaught /\ HPAs' = HPAs]_vars
    /\ [](Running /\ spc = "tick" => ENABLED Tick)
    /\ [][WatchStep => snap' = snap /\ idx' = idx]_vars
    /\ [][\A r \in Statuses :
            (update_hpa(r) /\ wpc' = "streaming") =>
                IF Succeeded(r)
                THEN /\ Keys(HPAs') = Keys(HPAs) \cup {EventKey}
                     /\ Lookup(HPAs', EventKey) =
                            NewHPA(event, HpaSpecs[hpaObjs[event].spec])
                     /\ OthersKept(HPAs, HPAs', EventKey)
                ELSE /\ Keys(HPAs') = Keys(HPAs) \ {EventKey}
                     /\ OthersKept(HPAs, HPAs', EventKey)]_vars
    /\ [](\A i, j \in 1..Len(HPAs) : HPAs[i].key = HPAs[j].key => i = j)
    /\ [][SyncStep => HPAs' = HPAs]_vars

\* C9 witness: while a tick works on a snapshot of two hpas, watch_hpa has
\* changed HPAs, and the snapshot is as it was taken.
C9_Witness ==
    /\ Running /\ InTick /\ Len(snap) = 2
    /\ snap # DictValues(HPAs)

E2EKey == NamespacedName(NAMESPACE, NameOrder[1])

\* three calls for the one object with threshold 10, on metric values 0, 25
\* and 5, that read 3, 0 and 2 replicas
E2EScenario ==
    /\ Len(calls) = 3
    /\ \A i \in CallIds : /\ calls[i].key = E2EKey
                          /\ calls[i].target = <<"Deployment", "bar">>
                          /\ calls[i].threshold = 10
                          /\ Succeeded(calls[i].status)
    /\ calls[1].value = 0 /\ calls[1].current = 3
    /\ calls[2].value = 25 /\ calls[2].current = 0
    /\ calls[3].value = 5 /\ calls[3].current = 2

\* C10: end to end over three ticks for one object (Deployment bar,
\* AverageValue 10, 3 replicas at the start, no actor but the program and the
\* Deployment's controller).  Metric 0 gives 0 needed replicas and a patch to
\* 0; then metric 25, read at 0 replicas, gives 2 and a patch to 2; then
\* metric 5, read at 2 replicas, gives 1 and no patch, and the Deployment is
\* left at 2.  In general a call that returns leaves the workload's replica count at
\* the needed one if the zero-ness of the count it read differed, and as it
\* was otherwise.
C10_EndToEnd ==
    /\ [](E2EScenario =>
            /\ calls[1].needed = 0 /\ calls[1].issued
            /\ calls[2].needed = 2 /\ calls[2].issued
            /\ calls[3].needed = 1 /\ ~calls[3].issued
            /\ (calls[3].untouched => workloads[calls[3].target].spec = 2))
    /\ [][\A r \in Statuses :
            (scale_read(r) /\ Succeeded(r) /\ spc' # "scale_patch")
            => /\ (workloads[Target].status = 0) = (needed = 0)
               /\ workloads' = workloads]_vars
    /\ [][\A r \in Statuses :
            (scale_patch(r) /\ Succeeded(r))
            => /\ (current = 0) # (needed = 0)
               /\ workloads'[Target].spec = needed]_vars
    /\ [][(Tick \/ \E m \in MetricResults : update_target(m))
            => workloads' = workloads]_vars

\* C10 witness: the three ticks of the scenario have run and the Deployment
\* is at 2 replicas.
C10_Witness ==
    /\ E2EScenario
    /\ calls[1].issued /\ calls[2].issued /\ ~calls[3].issued
    /\ workloads[<<"Deployment", "bar">>].spec = 2
    /\ workloads[<<"Deployment", "bar">>].status = 2

\* C11: frame of the Sync Loop.  No step of _watch (the snapshot, update_target
\* with its metric query, computation or skip, the read and the patch of the
\* scale) changes HPAs; every step that changes HPAs is update_hpa, a step of
\* watch_hpa.
C11_Frame ==
    /\ [][SyncStep => HPAs' = HPAs]_vars
    /\ [][HPAs' # HPAs => \E r \in Statuses : update_hpa(r)]_vars

\* C11 witness: a tick over two hpas has skipped the first on an unavailable
\* metric and is patching for the second, and both are in HPAs.
C11_Witness ==
    /\ outcomes = <<"skip">> /\ spc = "scale_patch" /\ idx = 2
    /\ SnapKeys(snap) = Keys(HPAs)

\* the object the re-fetch of update_hpa finds
EventObject == HpaSpecs[hpaObjs[event].spec]

\* C12 as claimed: after update_hpa has handled an event for a key, HPAs holds
\* the key iff the re-fetch found the object; when found, HPAs holds exactly
\* one HPA for the key, built from the object read; when not found the key
\* is absent; the other entries are as they were, and handling the same
\* event again against the same object would give the same HPAs.
C12_ResolveAndUpsert ==
    [][\A r \in {200, NOT_FOUND} :
        update_hpa(r) =>
            /\ IF Succeeded(r)
               THEN /\ EventKey \in Keys(HPAs')
                    /\ Cardinality({i \in 1..Len(HPAs') : HPAs'[i].key = EventKey}) = 1
                    /\ Lookup(HPAs', EventKey) = NewHPA(event, EventObject)
                    /\ DictSet(HPAs', EventKey, NewHPA(event, EventObject)) = HPAs'
               ELSE /\ EventKey \notin Keys(HPAs')
                    /\ DictPop(HPAs', EventKey) = HPAs'
            /\ Keys(HPAs') \ {EventKey} = Keys(HPAs) \ {EventKey}
            /\ OthersKept(HPAs, HPAs', EventKey)]_vars

\* the ApiException of the re-fetch leaves watch_hpa
RefetchFatal ==
    /\ wpc' = "raised"
    /\ uncaught'.main.exc = "ApiException"

\* C13: when the re-fetch in update_hpa fails with any status other than 404,
\* the exception leaves watch_hpa, which handles no further event and ends
\* the process with status 1, and HPAs is as it was.
C13_RefetchFailure ==
    /\ [][\A r \in ReadFailures :
            update_hpa(r) => RefetchFatal /\ HPAs' = HPAs]_vars
    /\ MainFailureTerminates

\* a thread has failed: an exception has left the loop of _watch or watch_hpa
Failed == spc \in {"failed", "exited"} \/ wpc = "raised"

\* a failure of a step of _watch other than an unavailable metric and a
\* workload not found
SyncFailure ==
    \/ \E m \in MetricResults :
          /\ update_target(m)
          /\ \/ m.status \notin {200} \cup METRIC_UNAVAILABLE
             \/ get_needed_replicas(Hpa, m).exc # ""
             \/ Succeeded(m.status) /\ UnsupportedKind
    \/ \E r \in Statuses \ {200, NOT_FOUND} : scale_read(r) \/ scale_patch(r)

\* C14 as claimed: after a failure in a tick other than the benign ones, no
\* patch is issued, no metric is queried and watch_hpa handles no event; and
\* after an exception has left watch_hpa, _watch takes no step either.
C14_Original ==
    [][Failed => ~WatchStep /\ ~SyncStep]_vars

\* C14 amended: fail-fast.  Every failure in a tick other than an unavailable
\* metric and a workload not found leaves the loop of _watch, which takes no
\* further step but os._exit(1); every exception that leaves watch_hpa ends
\* the main thread, which handles no further event and ends the process with
\* status 1.  Until the process has ended the other thread goes on: watch_hpa
\* may handle events while _watch logs and exits, and _watch may query
\* metrics and patch while the interpreter shuts down.  Once the process has
\* ended, with a non-zero status, neither thread takes a step.
C14_FailFast ==
    /\ [][SyncFailure => spc' = "failed" /\ uncaught'.sync.exc # ""]_vars
    /\ SyncFailureTerminates
    /\ [][wpc' = "raised" /\ wpc # "raised" => uncaught'.main.exc # ""]_vars
    /\ MainFailureTerminates
    /\ [](~Running => Terminated /\ ~ENABLED Program)
    /\ [][~Running => proc' = proc /\ workloads' = workloads /\ HPAs' = HPAs]_vars

\* C14 witness: the daemon thread has terminated the process on a failed
\* patch, the main thread having an event in hand.
C14_Witness ==
    /\ Terminated /\ proc.thread = "sync" /\ proc.exc = "ApiException"
    /\ spc = "exited" /\ current # 0
    /\ wpc = "reading" /\ event # ""

\* C15 as claimed: under every interleaving of a call of the Scaler with the
\* changes other actors make to the same workload, every patch applied moves
\* the workload's desired replica count across zero as of the step it is
\* applied; none replaces a non-zero desired count by another non-zero one.
C15_NoInterference ==
    [][\A r \in Statuses :
        (scale_patch(r) /\ Succeeded(r)) =>
            /\ (workloads[Target].spec = 0) # (workloads'[Target].spec = 0)
            /\ ~(/\ workloads[Target].spec # 0
                 /\ workloads'[Target].spec # 0
                 /\ workloads'[Target].spec # workloads[Target].spec)]_vars

\* the call of the Scaler has returned and the loop goes on, with the
\* workloads, the process and HPAs as they were
GoesOn ==
    /\ proc' = proc /\ uncaught' = uncaught
    /\ workloads' = workloads /\ HPAs' = HPAs
    /\ IF idx < Len(snap)
       THEN spc' = "update_target" /\ idx' = idx + 1 /\ snap' = snap
       ELSE spc' = "tick"

\* C16: when the read or the patch of the scale gives 404, no workload
\* changes, the process runs on, HPAs keeps the hpa, and _watch goes on to the
\* next hpa of the snapshot, or to the sleep and the next tick; when the read
\* or the patch fails with any other status the process terminates.
C16_NotFoundBenign ==
    /\ [][\A r \in Statuses \ {200} :
            (scale_read(r) \/ scale_patch(r)) =>
                IF r = NOT_FOUND
                THEN GoesOn /\ (HpaKey(Hpa) \in Keys(HPAs) => HpaKey(Hpa) \in Keys(HPAs'))
                ELSE SyncFails /\ uncaught'.sync.status = r]_vars
    /\ [](Running /\ spc = "tick" => ENABLED Tick)
    /\ SyncFailureTerminates

\* C16 witness: in a tick over two hpas the workload of the first was not
\* found, and the second has reached the Scaler, the first still in HPAs.
C16_Witness ==
    /\ outcomes = <<"not found">> /\ idx = 2 /\ spc = "scale_read"
    /\ HpaKey(snap[1]) \in Keys(HPAs) /\ Running

\* C17: whenever update_target gets a metric value for an hpa whose
\* target_type is not AverageValue, the process terminates on the ValueError
\* of get_needed_replicas and no workload changes; no call of the Scaler is
\* ever in progress for such an hpa.
C17_UnsupportedType ==
    /\ [][\A m \in MetricResults :
            (/\ update_target(m) /\ Succeeded(m.status)
             /\ Hpa.target_type # "AverageValue")
            => SyncFails /\ uncaught'.sync.exc = "ValueError"]_vars
    /\ SyncFailureTerminates
    /\ [](spc \in {"scale_read", "scale_patch"} => Hpa.target_type = "AverageValue")

\* C17 witness: the process has exited on the ValueError for an hpa of target
\* type Value on a Deployment, its metric value in hand.
C17_Witness ==
    /\ Terminated /\ proc.thread = "sync" /\ proc.exc = "ValueError"
    /\ Succeeded(proc.status)
    /\ Hpa.target_type = "Value" /\ Hpa.target_kind = "Deployment"

\* the keys of the objects that exist and match the label selector
Selected ==
    {NamespacedName(NAMESPACE, n) :
        n \in {x \in Names : HpaExists(x) /\ hpaObjs[x].matches}}

\* watch_hpa has an open watch and has handled every event delivered
CaughtUp == Running /\ wpc = "streaming" /\ stream = <<>> /\ event = ""

\* C18 as claimed: whenever watch_hpa has handled every event delivered so
\* far, also after a restart on 410 and its new list, the keys of HPAs are
\* exactly the objects that exist and match the label selector.
C18_StoreConsistent == CaughtUp => Keys(HPAs) = Selected

Bar == <<"Deployment", "bar">>
Db == <<"StatefulSet", "db">>

\* the hpa of the first object is in HPAs and its Deployment runs replicas
RunsAtZeroMetric ==
    /\ NamespacedName(NAMESPACE, NameOrder[1]) \in Keys(HPAs)
    /\ workloads[Bar].exists
    /\ workloads[Bar].status # 0 /\ workloads[Bar].spec # 0

\* the hpa of the second object is in HPAs and its StatefulSet is at zero
AtZeroWithMetric ==
    /\ NamespacedName(NAMESPACE, NameOrder[2]) \in Keys(HPAs)
    /\ workloads[Db].exists
    /\ workloads[Db].status = 0 /\ workloads[Db].spec = 0

\* C19: with _watch scheduled fairly, no fatal error, the hpas staying in
\* HPAs and the workloads existing: while the metric stays at 0, a workload
\* that runs replicas is eventually patched to 0; while the metric stays
\* positive, a workload at 0 replicas is eventually patched to a non-zero
\* count.
C19_EventualCrossing ==
    /\ RunsAtZeroMetric ~> (workloads[Bar].spec = 0)
    /\ AtZeroWithMetric ~> (workloads[Db].spec # 0)

\* C19 witness: the Deployment has been patched to 0 and the StatefulSet,
\* on metric 25 with threshold 5, to 5.
C19_Witness ==
    /\ Running
    /\ workloads[Bar].spec = 0 /\ workloads[Bar].status = 0
    /\ workloads[Db].spec = 5 /\ workloads[Db].status = 5

====
